---- MODULE Spec2Model ----
(***************************************************************************)
(* A model of the teleport node (src/teleport.go): the public facade       *)
(* (SetAPI, SetUID, Server, Client, Request, Close), the connection pool,  *)
(* the reader's decode-and-publish step (save), the dispatcher (apiHandle) *)
(* with one handler task per inbound message, and autoErrorHandle.         *)
(*                                                                         *)
(* The code takes no lock anywhere: every goroutine reads and writes the   *)
(* pool, the handler table and the connections directly.  A goroutine is   *)
(* therefore modelled as a process whose steps are the single accesses to  *)
(* shared state, in program order; the steps of different goroutines       *)
(* interleave freely.                                                      *)
(*                                                                         *)
(* The Connect type, the frame codec and the accept/dial drivers           *)
(* (server(), client()) are not part of src/teleport.go; the few           *)
(* definitions that stand for them follow spec.md and are marked as such.  *)
(***************************************************************************)
EXTENDS Integers, Sequences, FiniteSets, TLC

\* ------------------------------------------------------------------ bounds
\* Connection objects ever created by the accept/dial driver.
MaxConns == 2
\* Payloads read from the sockets in one run (all connections together).
MaxReads == 2
\* Handler tasks the dispatcher starts in one run.
MaxTasks == 2
\* Capacity of a connection's outbound queue (connWChanCap) in the model.
WChanCap == 2
\* Calls of Request and of Close in one run.
MaxCalls == 2

\* --------------------------------------------------------------- constants
SERVER == 1
CLIENT == 2
IDENTITY == "+identity+"
HEARTBEAT == "+heartbeat+"
SUCCESS == 0
FAILURE == -1
LLLEGAL == -2

\* A nil *Connect.
NilConn == 0
Conns == 1 .. MaxConns

\* The peer identities the remote side may advertise, and the strings a
\* message may carry in From and To.
PeerUIDs == {"A", "B"}
\* Where peers are told apart by their connection: the peer behind the first
\* connection is "A", the one behind any other "B".
PeerOf(c) == IF c = 1 THEN "A" ELSE "B"
\* The provisional pool key of connection object c: its remote host:port.
HostPort(c) == IF c = 1 THEN "hp1" ELSE IF c = 2 THEN "hp2" ELSE "hp3"

\* ------------------------------------------------------------ message record
NewNetData(from, to, operation, body) ==
    [Body |-> body, Operation |-> operation, UID |-> "",
     From |-> from, To |-> to, Status |-> SUCCESS]

\* new(NetData): the zero value.
ZeroNetData == [Body |-> "", Operation |-> "", UID |-> "",
                From |-> "", To |-> "", Status |-> 0]

\* ReturnData(body, OpAndToAndFrom...) with the three optional strings given
\* ("" where the caller leaves one out).
ReturnData(body, op, to, from) ==
    [Body |-> body, Operation |-> op, UID |-> "",
     From |-> from, To |-> to, Status |-> SUCCESS]

\* ReturnError that forgets the status.
ReturnErrorKeepStatus(receive, status, msg) ==
    [receive EXCEPT !.Body = msg, !.To = ""]

\* ReturnError(receive, status, msg) as autoErrorHandle calls it: without the
\* variadic nodeuid, so To is cleared.
ReturnError(receive, status, msg) ==
    [receive EXCEPT !.Status = status, !.Body = msg, !.To = ""]

\* The text of the ILLEGAL reply: a fixed prefix, the operation, a fixed suffix
\* (the source's literals are Chinese; they are rendered in ASCII here).
IllegalMsg(operation) == "API method (" \o operation \o ") does not exist!"

\* ------------------------------------------------------------ handler table
\* The handlers a table may hold.  identi and beat are the built-in ones
\* (var identi, beat); echo and relay stand for application handlers.
NoHandle == "none"
Ops == {IDENTITY, HEARTBEAT, "echo", "relay", "nope"}

\* API{}: the empty table New() installs.
EmptyAPI == [o \in Ops |-> NoHandle]

\* The tables an application passes to SetAPI: an empty one, one with two
\* handlers of its own, and one that also defines the two reserved names.
UserTables ==
    { EmptyAPI,
      [EmptyAPI EXCEPT !["echo"] = "echo", !["relay"] = "relay"],
      [EmptyAPI EXCEPT !["echo"] = "echo", !["relay"] = "relay",
                       ![IDENTITY] = "echo", ![HEARTBEAT] = "relay"] }

\* reserveAPI: the two reserved names are (re)bound to the built-in handlers.
reserveAPI(table) ==
    [table EXCEPT ![IDENTITY] = "identi", ![HEARTBEAT] = "beat"]

\* Process whose identity handler hands the request back as it came.
ProcessIdentityNoSwap(handle, r) ==
    CASE handle = "identi" ->
           [req |-> r, nil |-> FALSE, alias |-> TRUE, resp |-> r]
      [] handle = "beat" ->
           [req |-> r, nil |-> TRUE, alias |-> FALSE, resp |-> ZeroNetData]
      [] handle = "echo" ->
           [req |-> r, nil |-> FALSE, alias |-> FALSE,
            resp |-> ReturnData(r.Body, "", "", "")]
      [] OTHER ->
           [req |-> [r EXCEPT !.From = "Z"], nil |-> FALSE, alias |-> FALSE,
            resp |-> ReturnData(r.Body, "fwd", "B", "H")]

\* handle.Process(req): what the handler does to the request object it is
\* handed (a pointer), and what it returns: no reply (nil), the request object
\* itself (alias) or a fresh message.
Process(handle, r) ==
    CASE handle = "identi" ->
           LET s == [r EXCEPT !.From = r.To, !.To = r.From]
           IN  [req |-> s, nil |-> FALSE, alias |-> TRUE, resp |-> s]
      [] handle = "beat" ->
           [req |-> r, nil |-> TRUE, alias |-> FALSE, resp |-> ZeroNetData]
      [] handle = "echo" ->
           [req |-> r, nil |-> FALSE, alias |-> FALSE,
            resp |-> ReturnData(r.Body, "", "", "")]
      [] OTHER ->
           \* relay: rewrites the request's From and addresses a third node
           [req |-> [r EXCEPT !.From = "Z"], nil |-> FALSE, alias |-> FALSE,
            resp |-> ReturnData(r.Body, "fwd", "B", "H")]

\* ------------------------------------------------------------------- state
VARIABLES
    uid,          \* TP.uid
    mode,         \* TP.mode: 0 until a role is started
    canClose,     \* TP.canClose
    listener,     \* TP.listener: "nil", "open" or "closed"
    api,          \* TP.api
    connPool,     \* TP.connPool: a function whose domain is the keys present
    conn,         \* the Connect objects: socket state, peer UID, IsShort,
                  \* TmpBuffer (the bytes of a frame that is not complete yet)
    WriteChan,    \* each Connect's outbound queue
    apiReadChan,  \* TP.apiReadChan; src notes the connection an entry came from
    rbuf,         \* per reader: payloads unpacked by save and not yet handled
    nRead,        \* payloads read so far
    task,         \* the handler goroutines started by apiHandle
    nTask,        \* handler goroutines started so far
    rq,           \* the goroutine inside Request
    cl            \* the goroutine inside Close

vars == <<uid, mode, canClose, listener, api, connPool, conn, WriteChan,
          apiReadChan, rbuf, nRead, task, nTask, rq, cl>>

\* getConn: self.connPool[nodeuid], nil for a missing key.
getConn(nodeuid) ==
    IF nodeuid \in DOMAIN connPool THEN connPool[nodeuid] ELSE NilConn

\* delete(self.connPool, key)
PoolDelete(pool, key) == [k \in (DOMAIN pool) \ {key} |-> pool[k]]

\* self.connPool[key] = c
PoolPut(pool, key, c) ==
    [k \in (DOMAIN pool) \cup {key} |-> IF k = key THEN c ELSE pool[k]]

\* Connect.IsReady(): the socket is open and the identity handshake is done.
IsReady(c) == conn[c].st = "open" /\ conn[c].UID # ""

\* Connect.Close() on the object c.
ConnClose(cs, c) == [cs EXCEPT ![c].st = "closed"]

\* CountNodes
CountNodes == Cardinality({k \in DOMAIN connPool : IsReady(connPool[k])})

\* A handler goroutine: pc is its position, req and resp the objects it holds
\* (alias: they are one object), operation/from/to/handle/conn its locals,
\* status and msg the arguments of its autoErrorHandle call.  orig (the
\* request as dequeued), src (the connection it came from), ran (the handler
\* that was invoked), sent (what it put on which queue) and closed (the
\* connections it closed) only record what happened.
IdleTask ==
    [pc |-> "idle", orig |-> ZeroNetData, req |-> ZeroNetData,
     operation |-> "", from |-> "", to |-> "", handle |-> NoHandle,
     resp |-> ZeroNetData, alias |-> FALSE, conn |-> NilConn,
     status |-> 0, msg |-> "", src |-> NilConn, ran |-> NoHandle,
     sent |-> <<>>, closed |-> {}]

\* The caller inside Request: nodeuid is the variadic argument (at most one
\* element), conn the local; sent notes what it put on which queue.
IdleRq == [pc |-> "idle", n |-> 0, operation |-> "", nodeuid |-> <<>>,
           targeted |-> FALSE, conn |-> NilConn, sent |-> <<>>]

\* The caller inside Close: left is what remains of nodeuid, todo the keys the
\* range over the pool has yet to produce; all, listed and snap note the call's
\* arguments and the connections in the pool when the range began.
IdleCl == [pc |-> "idle", n |-> 0, all |-> FALSE, listed |-> {}, left |-> <<>>,
           todo |-> {}, snap |-> {}]

\* New()
Init ==
    /\ uid = ""
    /\ mode = 0
    /\ canClose = FALSE
    /\ listener = "nil"
    /\ api = EmptyAPI
    /\ connPool = <<>>
    /\ conn = [c \in Conns |-> [st |-> "none", UID |-> "", IsShort |-> FALSE,
                                TmpBuffer |-> <<>>]]
    /\ WriteChan = [c \in Conns |-> <<>>]
    /\ apiReadChan = <<>>
    /\ rbuf = [c \in Conns |-> <<>>]
    /\ nRead = 0
    /\ task = [t \in 1 .. MaxTasks |-> IdleTask]
    /\ nTask = 0
    /\ rq = IdleRq
    /\ cl = IdleCl

\* ------------------------------------------------------------ configuration
\* SetAPI(api)
SetAPI(table) ==
    /\ api' = table
    /\ UNCHANGED <<uid, mode, canClose, listener, connPool, conn, WriteChan,
                   apiReadChan, rbuf, nRead, task, nTask, rq, cl>>

\* SetUID that does not look at the mode.
SetUIDAnyMode(nodeuid) ==
    /\ uid' = nodeuid
    /\ UNCHANGED <<mode, canClose, listener, api, connPool, conn, WriteChan,
                   apiReadChan, rbuf, nRead, task, nTask, rq, cl>>

\* SetUID(nodeuid)
SetUID(nodeuid) ==
    /\ uid' = IF mode = SERVER THEN uid ELSE nodeuid
    /\ UNCHANGED <<mode, canClose, listener, api, connPool, conn, WriteChan,
                   apiReadChan, rbuf, nRead, task, nTask, rq, cl>>

\* Server(port); go self.server() binds the listener.  A role is started
\* once.
Server ==
    /\ mode = 0
    /\ api' = reserveAPI(api)
    /\ mode' = SERVER
    /\ uid' = "Server"
    /\ listener' = "open"
    /\ UNCHANGED <<canClose, connPool, conn, WriteChan,
                   apiReadChan, rbuf, nRead, task, nTask, rq, cl>>

\* Client(serverAddr, port, isShort...)
Client(isShort) ==
    /\ mode = 0
    /\ canClose' = IF isShort THEN TRUE ELSE canClose
    /\ api' = reserveAPI(api)
    /\ mode' = CLIENT
    /\ UNCHANGED <<uid, listener, connPool, conn, WriteChan,
                   apiReadChan, rbuf, nRead, task, nTask, rq, cl>>

\* ------------------------------------------------- accept/dial driver, peers
\* The next unused connection object.
FreshConn(c) ==
    /\ conn[c].st = "none"
    /\ \A d \in Conns : d < c => conn[d].st # "none"

\* Accepted: the socket is wrapped in a Connect and inserted under host:port.
Accept(c) ==
    /\ mode = SERVER
    /\ listener = "open"
    /\ FreshConn(c)
    /\ conn' = [conn EXCEPT ![c] = [st |-> "open", UID |-> "", IsShort |-> FALSE,
                                    TmpBuffer |-> <<>>]]
    /\ connPool' = PoolPut(connPool, HostPort(c), c)
    /\ UNCHANGED <<uid, mode, canClose, listener, api, WriteChan,
                   apiReadChan, rbuf, nRead, task, nTask, rq, cl>>

\* client(): one connection to the server at a time, redialled after a drop
\* until the facade is closed; short mode marks the connection short-lived.
Dial(c) ==
    /\ mode = CLIENT
    /\ cl.n = 0
    /\ FreshConn(c)
    /\ \A d \in Conns : conn[d].st # "open"
    /\ conn' = [conn EXCEPT ![c] = [st |-> "open", UID |-> "", IsShort |-> canClose,
                                    TmpBuffer |-> <<>>]]
    /\ connPool' = PoolPut(connPool, HostPort(c), c)
    /\ UNCHANGED <<uid, mode, canClose, listener, api, WriteChan,
                   apiReadChan, rbuf, nRead, task, nTask, rq, cl>>

\* Handshaking -> Established: the peer's IDENTITY arrived; the pool entry is
\* rekeyed from host:port to the advertised UID and the connection is ready.
\* Peers have UIDs of their own: none advertises a UID the pool holds.
Handshake(c, peer) ==
    /\ conn[c].st = "open"
    /\ conn[c].UID = ""
    /\ getConn(HostPort(c)) = c
    /\ peer \notin DOMAIN connPool
    /\ peer \in (IF mode = SERVER THEN PeerUIDs ELSE {"Server"})
    /\ conn' = [conn EXCEPT ![c].UID = peer]
    /\ connPool' = PoolPut(PoolDelete(connPool, HostPort(c)), peer, c)
    /\ UNCHANGED <<uid, mode, canClose, listener, api, WriteChan,
                   apiReadChan, rbuf, nRead, task, nTask, rq, cl>>

\* ----------------------------------------------------------------- reader
\* What a peer may put in a frame: a payload that decodes to a message, or
\* bytes that proto.Unmarshal rejects.
WireFroms(c) == {"", conn[c].UID, "B"}
WireTos == {"", "B"}
WireMsgs(c) ==
    { [Body |-> "hi", Operation |-> o, UID |-> "", From |-> f, To |-> t,
       Status |-> SUCCESS] : o \in Ops, f \in WireFroms(c), t \in WireTos }
Garbage == [ok |-> FALSE, m |-> ZeroNetData]
Payloads(c) == { [ok |-> TRUE, m |-> w] : w \in WireMsgs(c) } \cup {Garbage}

\* What one conn.Read may deliver once Unpack has split it: one payload or
\* two, out of P.
Batches(P) == { <<p>> : p \in P } \cup { <<p, q>> : p \in P, q \in P }

\* read(conn) with a successful socket read whose bytes end where a frame
\* ends: the bytes are appended to TmpBuffer and save unpacks it; batch is the
\* list Unpack returns, and nothing is left over.
Read(c, batch) ==
    /\ conn[c].st = "open"
    /\ rbuf[c] = <<>>
    /\ nRead + Len(batch) <= MaxReads
    /\ rbuf' = [rbuf EXCEPT ![c] = batch]
    /\ nRead' = nRead + Len(batch)
    /\ conn' = [conn EXCEPT ![c].TmpBuffer = <<>>]
    /\ UNCHANGED <<uid, mode, canClose, listener, api, connPool, WriteChan,
                   apiReadChan, task, nTask, rq, cl>>

\* read(conn) with a successful socket read whose bytes end inside a frame:
\* Unpack returns the complete payloads, if any, and leaves the begun frame in
\* TmpBuffer.
ReadPartial(c, batch) ==
    /\ conn[c].st = "open"
    /\ rbuf[c] = <<>>
    /\ nRead + Len(batch) <= MaxReads
    /\ rbuf' = [rbuf EXCEPT ![c] = batch]
    /\ nRead' = nRead + Len(batch)
    /\ conn' = [conn EXCEPT ![c].TmpBuffer = <<"part">>]
    /\ UNCHANGED <<uid, mode, canClose, listener, api, connPool, WriteChan,
                   apiReadChan, task, nTask, rq, cl>>

\* read(conn) when the socket read fails or returns no bytes: it reports
\* false, and the connection's driver loop closes the connection and drops
\* its pool entries.
ReadFail(c) ==
    /\ conn[c].st = "open"
    /\ rbuf[c] = <<>>
    /\ conn' = ConnClose(conn, c)
    /\ connPool' = [k \in {j \in DOMAIN connPool : connPool[j] # c} |-> connPool[k]]
    /\ UNCHANGED <<uid, mode, canClose, listener, api, WriteChan,
                   apiReadChan, rbuf, nRead, task, nTask, rq, cl>>

\* The decoding in save (and in ProtoNetData2): d is new(NetData); its empty
\* From is set to the connection's UID; then every field, From included, is
\* assigned from the decoded record.
Decode(w, c) ==
    LET d0 == ZeroNetData
        d1 == IF d0.From = "" THEN [d0 EXCEPT !.From = conn[c].UID] ELSE d0
    IN  [d1 EXCEPT !.Body = w.Body, !.Operation = w.Operation, !.UID = w.UID,
                   !.From = w.From, !.To = w.To, !.Status = w.Status]

\* save that gives up on the rest of dataSlice at a payload that does not
\* decode.
SaveStopsAtBadPayload(c) ==
    /\ rbuf[c] # <<>>
    /\ rbuf' = [rbuf EXCEPT ![c] = IF Head(rbuf[c]).ok THEN Tail(rbuf[c])
                                   ELSE <<>>]
    /\ apiReadChan' = IF Head(rbuf[c]).ok
                      THEN Append(apiReadChan,
                                  [d |-> Decode(Head(rbuf[c]).m, c), src |-> c])
                      ELSE apiReadChan
    /\ UNCHANGED <<uid, mode, canClose, listener, api, connPool, conn, WriteChan,
                   nRead, task, nTask, rq, cl>>

\* save that walks dataSlice from its end.
SaveLastFirst(c) ==
    /\ rbuf[c] # <<>>
    /\ rbuf' = [rbuf EXCEPT ![c] = SubSeq(rbuf[c], 1, Len(rbuf[c]) - 1)]
    /\ apiReadChan' = IF rbuf[c][Len(rbuf[c])].ok
                      THEN Append(apiReadChan,
                                  [d |-> Decode(rbuf[c][Len(rbuf[c])].m, c),
                                   src |-> c])
                      ELSE apiReadChan
    /\ UNCHANGED <<uid, mode, canClose, listener, api, connPool, conn, WriteChan,
                   nRead, task, nTask, rq, cl>>

\* One turn of the loop in save: the next payload is decoded and published on
\* the inbound queue, or logged and dropped when it does not decode.
Save(c) ==
    /\ rbuf[c] # <<>>
    /\ rbuf' = [rbuf EXCEPT ![c] = Tail(rbuf[c])]
    /\ apiReadChan' = IF Head(rbuf[c]).ok
                      THEN Append(apiReadChan,
                                  [d |-> Decode(Head(rbuf[c]).m, c), src |-> c])
                      ELSE apiReadChan
    /\ UNCHANGED <<uid, mode, canClose, listener, api, connPool, conn, WriteChan,
                   nRead, task, nTask, rq, cl>>

\* send: a message whose From is empty leaves with the node's own UID.
StampFrom(data) == IF data.From = "" THEN [data EXCEPT !.From = uid] ELSE data

\* ------------------------------------------------------------- dispatcher
\* apiHandle that runs the handler itself: it takes the next message once
\* the task of the one before has finished.
DispatchInline ==
    /\ mode # 0
    /\ apiReadChan # <<>>
    /\ nTask < MaxTasks
    /\ \A t \in 1 .. nTask : task[t].pc = "done"
    /\ nTask' = nTask + 1
    /\ task' = [task EXCEPT ![nTask + 1] =
                   [IdleTask EXCEPT !.pc = "start",
                                    !.orig = Head(apiReadChan).d,
                                    !.req = Head(apiReadChan).d,
                                    !.src = Head(apiReadChan).src]]
    /\ apiReadChan' = Tail(apiReadChan)
    /\ UNCHANGED <<uid, mode, canClose, listener, api, connPool, conn, WriteChan,
                   rbuf, nRead, rq, cl>>

\* apiHandle: req := <-self.apiReadChan; go func(req) {...}(req).  The
\* dispatcher does not wait for the goroutine it starts.
Dispatch ==
    /\ mode # 0
    /\ apiReadChan # <<>>
    /\ nTask < MaxTasks
    /\ nTask' = nTask + 1
    /\ task' = [task EXCEPT ![nTask + 1] =
                   [IdleTask EXCEPT !.pc = "start",
                                    !.orig = Head(apiReadChan).d,
                                    !.req = Head(apiReadChan).d,
                                    !.src = Head(apiReadChan).src]]
    /\ apiReadChan' = Tail(apiReadChan)
    /\ UNCHANGED <<uid, mode, canClose, listener, api, connPool, conn, WriteChan,
                   rbuf, nRead, rq, cl>>

\* operation, from, to := req.Operation, req.To, req.From
Locals(r) == [operation |-> r.Operation, from |-> r.To, to |-> r.From]

\* The goroutine's first step: the three locals are taken from the request,
\* the handler is looked up, and either the ILLEGAL reply is prepared or the
\* handler runs.
TaskStart(t) ==
    /\ task[t].pc = "start"
    /\ LET r == task[t].req
           l == Locals(r)
           handle == api[r.Operation]
           p == Process(handle, r)
           t1 == [task[t] EXCEPT !.operation = l.operation, !.from = l.from,
                                 !.to = l.to, !.handle = handle]
       IN  task' = [task EXCEPT ![t] =
               IF handle = NoHandle
               THEN [t1 EXCEPT !.pc = "autoerr", !.status = LLLEGAL,
                               !.msg = IllegalMsg(r.Operation)]
               ELSE IF p.nil
               THEN [t1 EXCEPT !.pc = "noreply1", !.req = p.req, !.ran = handle]
               ELSE [t1 EXCEPT !.pc = "route", !.req = p.req, !.resp = p.resp,
                               !.alias = p.alias, !.ran = handle]]
    /\ UNCHANGED <<uid, mode, canClose, listener, api, connPool, conn, WriteChan,
                   apiReadChan, rbuf, nRead, nTask, rq, cl>>

\* resp == nil: conn = self.getConn(to); conn != nil && ...
TaskNoReply1(t) ==
    /\ task[t].pc = "noreply1"
    /\ task' = [task EXCEPT ![t].conn = getConn(task[t].to),
                            ![t].pc = IF getConn(task[t].to) = NilConn
                                      THEN "done" ELSE "noreply2"]
    /\ UNCHANGED <<uid, mode, canClose, listener, api, connPool, conn, WriteChan,
                   apiReadChan, rbuf, nRead, nTask, rq, cl>>

\* ... && self.getConn(to).IsShort: a second lookup, dereferenced unchecked.
TaskNoReply2(t) ==
    /\ task[t].pc = "noreply2"
    /\ LET c == getConn(task[t].to)
       IN  task' = [task EXCEPT ![t].pc =
                       IF c = NilConn THEN "panic"
                       ELSE IF conn[c].IsShort THEN "closeConn1" ELSE "done"]
    /\ UNCHANGED <<uid, mode, canClose, listener, api, connPool, conn, WriteChan,
                   apiReadChan, rbuf, nRead, nTask, rq, cl>>

\* closeConn(to): conn := self.connPool[nodeuid]; if conn == nil { return }
TaskCloseConn1(t) ==
    /\ task[t].pc = "closeConn1"
    /\ task' = [task EXCEPT ![t].conn = getConn(task[t].to),
                            ![t].pc = IF getConn(task[t].to) = NilConn
                                      THEN "done" ELSE "closeConn2"]
    /\ UNCHANGED <<uid, mode, canClose, listener, api, connPool, conn, WriteChan,
                   apiReadChan, rbuf, nRead, nTask, rq, cl>>

\* closeConn that deletes the pool entry and leaves the socket open.
TaskCloseConn2DeleteOnly(t) ==
    /\ task[t].pc = "closeConn2"
    /\ connPool' = PoolDelete(connPool, task[t].to)
    /\ task' = [task EXCEPT ![t].pc = "done",
                            ![t].closed = @ \cup {task[t].conn}]
    /\ UNCHANGED <<uid, mode, canClose, listener, api, conn, WriteChan,
                   apiReadChan, rbuf, nRead, nTask, rq, cl>>

\* closeConn(to): conn.Close(); delete(self.connPool, nodeuid)
TaskCloseConn2(t) ==
    /\ task[t].pc = "closeConn2"
    /\ conn' = ConnClose(conn, task[t].conn)
    /\ connPool' = PoolDelete(connPool, task[t].to)
    /\ task' = [task EXCEPT ![t].pc = "done",
                            ![t].closed = @ \cup {task[t].conn}]
    /\ UNCHANGED <<uid, mode, canClose, listener, api, WriteChan,
                   apiReadChan, rbuf, nRead, nTask, rq, cl>>

\* The defaults apiHandle gives a reply: To, then (once the target is found)
\* Operation and From.
DefaultTo(resp, to) == IF resp.To = "" THEN [resp EXCEPT !.To = to] ELSE resp
DefaultOpFrom(resp, operation, from) ==
    LET r1 == IF resp.Operation = "" THEN [resp EXCEPT !.Operation = operation]
              ELSE resp
    IN  IF r1.From = "" THEN [r1 EXCEPT !.From = from] ELSE r1

\* resp != nil: default To, look the target up; a missing target leads to
\* autoErrorHandle(req, FAILURE, "", to), a present one to the send.
TaskRoute(t) ==
    /\ task[t].pc = "route"
    /\ LET r1 == DefaultTo(task[t].resp, task[t].to)
           c == getConn(r1.To)
           \* a reply that is the request object: the write shows in req too
           q == IF task[t].alias THEN r1 ELSE task[t].req
       IN  task' = [task EXCEPT ![t] =
               IF c = NilConn
               THEN [@ EXCEPT !.pc = "autoerr", !.resp = r1, !.req = q,
                              !.conn = c, !.status = FAILURE, !.msg = ""]
               ELSE [@ EXCEPT !.pc = "send", !.conn = c, !.req = q,
                              !.resp = DefaultOpFrom(r1, task[t].operation,
                                                     task[t].from)]]
    /\ UNCHANGED <<uid, mode, canClose, listener, api, connPool, conn, WriteChan,
                   apiReadChan, rbuf, nRead, nTask, rq, cl>>

\* autoErrorHandle that looks the originator up under the From the request
\* object holds now, not under the reqFrom it was handed.
autoErrorHandleByReqFrom(t) ==
    /\ task[t].pc = "autoerr"
    /\ LET oldConn == getConn(task[t].req.From)
           e0 == ReturnError(task[t].req, task[t].status, task[t].msg)
           respErr == [e0 EXCEPT !.From = uid, !.To = task[t].req.From]
       IN  task' = [task EXCEPT ![t] =
               IF oldConn = NilConn
               THEN [@ EXCEPT !.pc = "done", !.conn = NilConn]
               ELSE [@ EXCEPT !.pc = "send", !.conn = oldConn,
                              !.req = respErr, !.resp = respErr]]
    /\ UNCHANGED <<uid, mode, canClose, listener, api, connPool, conn, WriteChan,
                   apiReadChan, rbuf, nRead, nTask, rq, cl>>

\* autoErrorHandle up to its send: the originator is looked up; if present
\* the request object is turned into the error reply.
autoErrorHandle(t) ==
    /\ task[t].pc = "autoerr"
    /\ LET oldConn == getConn(task[t].to)
           e0 == ReturnError(task[t].req, task[t].status, task[t].msg)
           respErr == [e0 EXCEPT !.From = uid, !.To = task[t].to]
       IN  task' = [task EXCEPT ![t] =
               IF oldConn = NilConn
               THEN [@ EXCEPT !.pc = "done", !.conn = NilConn]
               ELSE [@ EXCEPT !.pc = "send", !.conn = oldConn,
                              !.req = respErr, !.resp = respErr]]
    /\ UNCHANGED <<uid, mode, canClose, listener, api, connPool, conn, WriteChan,
                   apiReadChan, rbuf, nRead, nTask, rq, cl>>

\* conn.WriteChan <- resp (and oldConn.WriteChan <- respErr): blocks while
\* the queue is full.
TaskSend(t) ==
    /\ task[t].pc = "send"
    /\ Len(WriteChan[task[t].conn]) < WChanCap
    /\ WriteChan' = [WriteChan EXCEPT ![task[t].conn] = Append(@, task[t].resp)]
    /\ task' = [task EXCEPT ![t].pc = "done",
                            ![t].sent = Append(@, <<task[t].conn, task[t].resp>>)]
    /\ UNCHANGED <<uid, mode, canClose, listener, api, connPool, conn,
                   apiReadChan, rbuf, nRead, nTask, rq, cl>>

\* ----------------------------------------------------------------- Request
\* The targets a caller may name.
Targets == {"A", "Server"}

\* Request(body, operation, nodeuid...) is entered.
RequestCall(operation, nodeuid) ==
    /\ rq.pc \in {"idle", "returned"}
    /\ rq.n < MaxCalls
    /\ rq' = [IdleRq EXCEPT !.pc = IF nodeuid = <<>> THEN "count" ELSE "get",
                            !.n = rq.n + 1, !.operation = operation,
                            !.nodeuid = nodeuid, !.targeted = (nodeuid # <<>>)]
    /\ UNCHANGED <<uid, mode, canClose, listener, api, connPool, conn, WriteChan,
                   apiReadChan, rbuf, nRead, task, nTask, cl>>

\* for { if self.CountNodes() > 0 { break }; time.Sleep(5e8) }
RqCount ==
    /\ rq.pc = "count"
    /\ CountNodes > 0
    /\ rq' = [rq EXCEPT !.pc = "select"]
    /\ UNCHANGED <<uid, mode, canClose, listener, api, connPool, conn, WriteChan,
                   apiReadChan, rbuf, nRead, task, nTask, cl>>

\* for uid, conn = range self.connPool { if conn.IsReady() { append; break } }
\* The range produces the keys in no fixed order; with no ready connection
\* left nodeuid stays empty.
RqSelect ==
    /\ rq.pc = "select"
    /\ \/ \E k \in DOMAIN connPool :
            /\ IsReady(connPool[k])
            /\ rq' = [rq EXCEPT !.pc = "get", !.nodeuid = <<k>>,
                                !.conn = connPool[k]]
       \/ /\ \A k \in DOMAIN connPool : ~IsReady(connPool[k])
          /\ rq' = [rq EXCEPT !.pc = "get"]
    /\ UNCHANGED <<uid, mode, canClose, listener, api, connPool, conn, WriteChan,
                   apiReadChan, rbuf, nRead, task, nTask, cl>>

\* conn = self.getConn(nodeuid[0]): indexing an empty nodeuid panics.
RqGet ==
    /\ rq.pc = "get"
    /\ rq' = IF rq.nodeuid = <<>>
             THEN [rq EXCEPT !.pc = "panic"]
             ELSE [rq EXCEPT !.pc = "wait", !.conn = getConn(rq.nodeuid[1])]
    /\ UNCHANGED <<uid, mode, canClose, listener, api, connPool, conn, WriteChan,
                   apiReadChan, rbuf, nRead, task, nTask, cl>>

\* for conn == nil || !conn.IsReady() { conn = self.getConn(nodeuid[0]); sleep }
RqWait ==
    /\ rq.pc = "wait"
    /\ rq' = IF rq.conn = NilConn \/ ~IsReady(rq.conn)
             THEN [rq EXCEPT !.conn = getConn(rq.nodeuid[1])]
             ELSE [rq EXCEPT !.pc = "send"]
    /\ UNCHANGED <<uid, mode, canClose, listener, api, connPool, conn, WriteChan,
                   apiReadChan, rbuf, nRead, task, nTask, cl>>

\* conn.WriteChan <- NewNetData(self.uid, nodeuid[0], operation, body)
RqSend ==
    /\ rq.pc = "send"
    /\ Len(WriteChan[rq.conn]) < WChanCap
    /\ LET m == NewNetData(uid, rq.nodeuid[1], rq.operation, "hi")
       IN  /\ WriteChan' = [WriteChan EXCEPT ![rq.conn] = Append(@, m)]
           /\ rq' = [rq EXCEPT !.pc = "returned",
                               !.sent = Append(@, <<rq.conn, m>>)]
    /\ UNCHANGED <<uid, mode, canClose, listener, api, connPool, conn,
                   apiReadChan, rbuf, nRead, task, nTask, cl>>

\* ------------------------------------------------------------------- Close
CloseArgs == {<<>>, <<"A">>, <<"B", "A">>, <<"Server">>}

RECURSIVE Range(_)
Range(q) == IF q = <<>> THEN {} ELSE {Head(q)} \cup Range(Tail(q))

\* Close(nodeuid...) up to its loops: the listener, if there is one, is
\* closed and canClose is set, whatever the arguments.
CloseCall(nodeuid) ==
    /\ cl.pc \in {"idle", "returned"}
    /\ cl.n < MaxCalls
    /\ listener' = IF listener # "nil" THEN "closed" ELSE listener
    /\ canClose' = TRUE
    /\ cl' = [IdleCl EXCEPT !.pc = IF nodeuid = <<>> THEN "all" ELSE "listed",
                            !.n = cl.n + 1, !.all = (nodeuid = <<>>),
                            !.listed = Range(nodeuid), !.left = nodeuid,
                            !.todo = DOMAIN connPool,
                            !.snap = {connPool[k] : k \in DOMAIN connPool}]
    /\ UNCHANGED <<uid, mode, api, connPool, conn, WriteChan,
                   apiReadChan, rbuf, nRead, task, nTask, rq>>

\* One turn of: for uid, conn := range self.connPool { conn.Close();
\* delete(self.connPool, uid) }.  A key inserted after the range began may be
\* produced or skipped.
CloseAllIter(k) ==
    /\ cl.pc = "all"
    /\ k \in DOMAIN connPool
    /\ conn' = ConnClose(conn, connPool[k])
    /\ connPool' = PoolDelete(connPool, k)
    /\ cl' = [cl EXCEPT !.todo = @ \ {k}]
    /\ UNCHANGED <<uid, mode, canClose, listener, api, WriteChan,
                   apiReadChan, rbuf, nRead, task, nTask, rq>>

\* The range ends once every key it began with has been produced or deleted.
CloseAllEnd ==
    /\ cl.pc = "all"
    /\ cl.todo \cap DOMAIN connPool = {}
    /\ cl' = [cl EXCEPT !.pc = "returned", !.todo = {}]
    /\ UNCHANGED <<uid, mode, canClose, listener, api, connPool, conn, WriteChan,
                   apiReadChan, rbuf, nRead, task, nTask, rq>>

\* One turn of: for _, uid := range nodeuid { self.connPool[uid].Close();
\* delete(self.connPool, uid) }.  A uid that is no key yields a nil *Connect,
\* and Close on it panics.
CloseListed ==
    /\ cl.pc = "listed"
    /\ LET k == Head(cl.left)
           c == getConn(k)
       IN  IF c = NilConn
           THEN /\ cl' = [cl EXCEPT !.pc = "panic"]
                /\ UNCHANGED <<conn, connPool>>
           ELSE /\ conn' = ConnClose(conn, c)
                /\ connPool' = PoolDelete(connPool, k)
                /\ cl' = [cl EXCEPT !.left = Tail(@),
                                    !.pc = IF Tail(cl.left) = <<>>
                                           THEN "returned" ELSE "listed"]
    /\ UNCHANGED <<uid, mode, canClose, listener, api, WriteChan,
                   apiReadChan, rbuf, nRead, task, nTask, rq>>

\* ---------------------------------------------------------- specifications
\* The goroutines of the node, each the disjunction of its steps.
Driver ==
    \/ \E c \in Conns : Accept(c)
    \/ \E c \in Conns : Dial(c)
    \/ \E c \in Conns, peer \in PeerUIDs \cup {"Server"} : Handshake(c, peer)

Handler ==
    \/ Dispatch
    \/ \E t \in 1 .. MaxTasks : TaskStart(t)
    \/ \E t \in 1 .. MaxTasks : TaskNoReply1(t)
    \/ \E t \in 1 .. MaxTasks : TaskNoReply2(t)
    \/ \E t \in 1 .. MaxTasks : TaskCloseConn1(t)
    \/ \E t \in 1 .. MaxTasks : TaskCloseConn2(t)
    \/ \E t \in 1 .. MaxTasks : TaskRoute(t)
    \/ \E t \in 1 .. MaxTasks : autoErrorHandle(t)
    \/ \E t \in 1 .. MaxTasks : TaskSend(t)

Requester ==
    \/ \E nodeuid \in {<<>>} \cup { <<u>> : u \in Targets } :
          mode # 0 /\ RequestCall("echo", nodeuid)
    \/ RqCount
    \/ RqSelect
    \/ RqGet
    \/ RqWait
    \/ RqSend

Closer ==
    \/ \E nodeuid \in CloseArgs : mode # 0 /\ CloseCall(nodeuid)
    \/ \E k \in PeerUIDs \cup {"Server", "hp1", "hp2", "hp3"} : CloseAllIter(k)
    \/ CloseAllEnd
    \/ CloseListed

\* The payloads of the dispatch scenarios: To matters to the handlers that
\* read it (echo through the From default, identity through the swap).
DispatchMsgs(c) ==
    { w \in WireMsgs(c) : w.To = "" \/ w.Operation \in {"echo", IDENTITY} }

\* Dispatch: a node configured before its role starts, its connections, the
\* readers publishing single payloads, the dispatcher and the handler tasks.
NextDispatch ==
    \/ \E table \in UserTables : mode = 0 /\ SetAPI(table)
    \/ Server
    \/ \E isShort \in BOOLEAN : Client(isShort)
    \/ Driver
    \/ \E c \in Conns : \E w \in DispatchMsgs(c) : Read(c, <<[ok |-> TRUE, m |-> w]>>)
    \/ \E c \in Conns : Save(c)
    \/ Handler

Spec == Init /\ [][NextDispatch]_vars

\* Configuration: the setters called at any time, before and after the role
\* starts, while peers send the two reserved operations.
ConfigMsgs(c) ==
    { w \in WireMsgs(c) : /\ w.Operation \in {IDENTITY, HEARTBEAT}
                          /\ w.From = conn[c].UID /\ w.To = "" }

NextConfig ==
    \/ \E table \in UserTables : SetAPI(table)
    \/ \E nodeuid \in {"N1", "N2"} : SetUID(nodeuid)
    \/ Server
    \/ \E isShort \in BOOLEAN : Client(isShort)
    \/ Driver
    \/ \E c \in Conns : \E w \in ConfigMsgs(c) : Read(c, <<[ok |-> TRUE, m |-> w]>>)
    \/ \E c \in Conns : Save(c)
    \/ Handler

SpecConfig == Init /\ [][NextConfig]_vars

\* Reading: the connections of a started node and their readers, which take
\* any payload, one or two to a read, and may see the socket fail.
\* The reader copies Operation and To without reading them: one value of each
\* is enough; From is empty or names the peer.
ReaderPayloads(c) ==
    { p \in Payloads(c) : p.ok => /\ p.m.Operation = "echo" /\ p.m.To = ""
                                  /\ p.m.From \in {"", conn[c].UID} }

NextReader ==
    \/ Server
    \/ Client(FALSE)
    \/ Driver
    \/ \E c \in Conns : ReadFail(c)
    \/ \E c \in Conns : \E batch \in Batches(ReaderPayloads(c)) : Read(c, batch)
    \/ \E c \in Conns : Save(c)

SpecReader == Init /\ [][NextReader]_vars

\* Decoding: the readers of a server's connections, fed payloads that decode
\* and payloads that do not, one or two to a read, with or without a begun
\* frame after them, while sockets fail.  What a payload that decodes holds
\* makes no difference here: one is enough.
DecodePayloads(c) ==
    { p \in Payloads(c) : p.ok => /\ p.m.Operation = "echo"
                                  /\ p.m.From = "" /\ p.m.To = "" }

NextDecode ==
    \/ Server
    \/ \E c \in Conns : Accept(c)
    \/ \E c \in Conns : Handshake(c, "A")
    \/ \E c \in Conns : ReadFail(c)
    \/ \E c \in Conns : \E batch \in Batches(DecodePayloads(c)) : Read(c, batch)
    \/ \E c \in Conns : \E batch \in Batches(DecodePayloads(c)) \cup {<<>>} :
          ReadPartial(c, batch)
    \/ \E c \in Conns : Save(c)

SpecDecode == Init /\ [][NextDecode]_vars

\* Identity exchange: a server whose peers send IDENTITY messages with a To,
\* naming themselves or another node in From.
IdentityMsgs(c) ==
    { w \in WireMsgs(c) : w.Operation = IDENTITY /\ w.From # "" /\ w.To # "" }

NextIdentity ==
    \/ Server
    \/ \E c \in Conns : Accept(c)
    \/ \E c \in Conns : Handshake(c, PeerOf(c))
    \/ \E c \in Conns : \E w \in IdentityMsgs(c) : Read(c, <<[ok |-> TRUE, m |-> w]>>)
    \/ \E c \in Conns : Save(c)
    \/ Dispatch
    \/ \E t \in 1 .. MaxTasks : TaskStart(t)
    \/ \E t \in 1 .. MaxTasks : TaskRoute(t)
    \/ \E t \in 1 .. MaxTasks : autoErrorHandle(t)
    \/ \E t \in 1 .. MaxTasks : TaskSend(t)

SpecIdentity == Init /\ [][NextIdentity]_vars

\* Illegal requests: a server whose peers ask, under their own name or
\* another, for an operation that is not registered.
IllegalMsgs(c) ==
    { w \in WireMsgs(c) : w.Operation = "nope" /\ w.From # "" /\ w.To = "" }

NextIllegal ==
    \/ mode = 0 /\ SetAPI([EmptyAPI EXCEPT !["echo"] = "echo", !["relay"] = "relay"])
    \/ Server
    \/ \E c \in Conns : Accept(c)
    \/ \E c \in Conns : Handshake(c, PeerOf(c))
    \/ \E c \in Conns : \E w \in IllegalMsgs(c) : Read(c, <<[ok |-> TRUE, m |-> w]>>)
    \/ \E c \in Conns : Save(c)
    \/ Dispatch
    \/ \E t \in 1 .. MaxTasks : TaskStart(t)
    \/ \E t \in 1 .. MaxTasks : autoErrorHandle(t)
    \/ \E t \in 1 .. MaxTasks : TaskSend(t)

SpecIllegal == Init /\ [][NextIllegal]_vars

\* Unroutable replies: a server with application handlers whose peers ask,
\* under their own name or another, for an operation whose handler rewrites
\* the request and addresses a third node.
UnroutableMsgs(c) ==
    { w \in WireMsgs(c) : w.Operation = "relay" /\ w.From # "" /\ w.To = "" }

NextUnroutable ==
    \/ mode = 0 /\ SetAPI([EmptyAPI EXCEPT !["echo"] = "echo", !["relay"] = "relay"])
    \/ Server
    \/ \E c \in Conns : Accept(c)
    \/ \E c \in Conns : Handshake(c, PeerOf(c))
    \/ \E c \in Conns : \E w \in UnroutableMsgs(c) : Read(c, <<[ok |-> TRUE, m |-> w]>>)
    \/ \E c \in Conns : Save(c)
    \/ Dispatch
    \/ \E t \in 1 .. MaxTasks : TaskStart(t)
    \/ \E t \in 1 .. MaxTasks : TaskRoute(t)
    \/ \E t \in 1 .. MaxTasks : autoErrorHandle(t)
    \/ \E t \in 1 .. MaxTasks : TaskSend(t)

SpecUnroutable == Init /\ [][NextUnroutable]_vars

\* No reply: a client, in long or short mode, whose server sends heartbeats
\* under its own name, another name or none; the connection is redialled
\* after a handler task has closed it.
NoReplyMsgs(c) ==
    { w \in WireMsgs(c) : w.Operation = HEARTBEAT /\ w.To = "" }

NextNoReply ==
    \/ \E isShort \in BOOLEAN : Client(isShort)
    \/ \E c \in Conns : Dial(c)
    \/ \E c \in Conns : Handshake(c, "Server")
    \/ \E c \in Conns : \E w \in NoReplyMsgs(c) : Read(c, <<[ok |-> TRUE, m |-> w]>>)
    \/ \E c \in Conns : Save(c)
    \/ Dispatch
    \/ \E t \in 1 .. MaxTasks : TaskStart(t)
    \/ \E t \in 1 .. MaxTasks : TaskNoReply1(t)
    \/ \E t \in 1 .. MaxTasks : TaskNoReply2(t)
    \/ \E t \in 1 .. MaxTasks : TaskCloseConn1(t)
    \/ \E t \in 1 .. MaxTasks : TaskCloseConn2(t)

SpecNoReply == Init /\ [][NextNoReply]_vars

\* Facade: an application thread inside Request and one inside Close, while
\* the driver accepts, dials and completes handshakes.
NextFacade ==
    \/ mode = 0 /\ SetUID("N1")
    \/ Server
    \/ \E isShort \in BOOLEAN : Client(isShort)
    \/ Driver
    \/ Requester
    \/ Closer

SpecFacade == Init /\ [][NextFacade]_vars

\* Arrival order: every payload carries, in its UID field, the number of
\* payloads that arrived at the node before it (in unary), so that the order
\* of arrival can be read off a message wherever it is.
RECURSIVE Tag(_)
Tag(i) == IF i = 0 THEN "" ELSE "i" \o Tag(i - 1)
ArrivalNo(u) == CHOOSE i \in 0 .. MaxReads + 1 : Tag(i) = u

Tagged(p, i) == IF p.ok THEN [p EXCEPT !.m.UID = Tag(i)] ELSE p
TaggedBatches(c, n) ==
    LET P == { p \in Payloads(c) :
                 p.ok => /\ p.m.Operation = "echo"
                         /\ p.m.From = conn[c].UID /\ p.m.To = "" }
    IN  { <<Tagged(p, n + 1)>> : p \in P }
        \cup { <<Tagged(p, n + 1), Tagged(q, n + 2)>> : p \in P, q \in P }

NextOrder ==
    \/ Server
    \/ Client(FALSE)
    \/ Driver
    \/ \E c \in Conns : \E batch \in TaggedBatches(c, nRead) : Read(c, batch)
    \/ \E c \in Conns : Save(c)
    \/ Dispatch

SpecOrder == Init /\ [][NextOrder]_vars

\* Dispatcher progress: a server whose application keeps one peer's outbound
\* queue filled by Request while that peer sends requests.  The dispatcher
\* goroutine is always scheduled again (weak fairness of Dispatch); a handler
\* task is promised nothing: its handler may never return, and its send waits
\* for room in a queue that no one drains.
LiveMsgs(c) ==
    { w \in WireMsgs(c) : /\ w.Operation \in {"echo", "nope"}
                          /\ w.From = conn[c].UID /\ w.From # "" /\ w.To = "" }

NextLive ==
    \/ mode = 0 /\ SetAPI([EmptyAPI EXCEPT !["echo"] = "echo", !["relay"] = "relay"])
    \/ Server
    \/ \E c \in Conns : Accept(c)
    \/ \E c \in Conns : Handshake(c, "A")
    \/ \E c \in Conns : \E w \in LiveMsgs(c) : Read(c, <<[ok |-> TRUE, m |-> w]>>)
    \/ \E c \in Conns : Save(c)
    \/ Dispatch
    \/ \E t \in 1 .. MaxTasks : TaskStart(t)
    \/ \E t \in 1 .. MaxTasks : TaskRoute(t)
    \/ \E t \in 1 .. MaxTasks : autoErrorHandle(t)
    \/ \E t \in 1 .. MaxTasks : TaskSend(t)
    \/ mode # 0 /\ RequestCall("echo", <<"A">>)
    \/ RqGet
    \/ RqWait
    \/ RqSend

SpecLive == Init /\ [][NextLive]_vars /\ WF_vars(Dispatch)

\* Identity: a server whose UID is set at any time, before and after its role
\* starts, while it answers requests with replies and errors of its own and
\* an application thread calls Request.  The identity handler's reply to a
\* message without To leaves with an empty From, for the writer to stamp; a
\* message for an operation that is not registered draws an error reply.
UIDMsgs(c) ==
    { w \in WireMsgs(c) : /\ w.Operation \in {IDENTITY, "nope"}
                          /\ w.From = conn[c].UID /\ w.From # "" /\ w.To = "" }

NextUID ==
    \/ SetUID("N1")
    \/ Server
    \/ \E c \in Conns : Accept(c)
    \/ \E c \in Conns : Handshake(c, PeerOf(c))
    \/ \E c \in Conns : \E w \in UIDMsgs(c) : Read(c, <<[ok |-> TRUE, m |-> w]>>)
    \/ \E c \in Conns : Save(c)
    \/ Dispatch
    \/ \E t \in 1 .. MaxTasks : TaskStart(t)
    \/ \E t \in 1 .. MaxTasks : TaskRoute(t)
    \/ \E t \in 1 .. MaxTasks : autoErrorHandle(t)
    \/ \E t \in 1 .. MaxTasks : TaskSend(t)
    \/ mode # 0 /\ RequestCall("echo", <<"A">>)
    \/ RqGet
    \/ RqWait
    \/ RqSend

SpecUID == Init /\ [][NextUID]_vars

\* ------------------------------------------------------------------ claims
Tasks == 1 .. MaxTasks

\* Task t leaves position p in this step.
Stepped(t, p) == task[t].pc = p /\ task'[t].pc # p

Last(q) == q[Len(q)]

\* This step appends m to connection c's outbound queue and changes no other.
Enqueues(c, m) == WriteChan' = [WriteChan EXCEPT ![c] = Append(@, m)]

\* C1: a message whose Operation is not in the handler table invokes no
\* handler; if its From is a key of the pool when the task looks it up, the
\* task enqueues exactly one reply, on the queue of the connection found there
\* and on no other, with Status = ILLEGAL, To = original From, From = own UID,
\* the original Operation and a non-empty Body; otherwise it enqueues nothing.
C1_IllegalReply ==
    [][\A t \in Tasks :
         LET o == task[t].orig IN
         /\ (Stepped(t, "start") /\ api[o.Operation] = NoHandle) =>
               /\ task'[t].pc = "autoerr"
               /\ task'[t].handle = NoHandle
               /\ task'[t].ran = NoHandle
               /\ WriteChan' = WriteChan
         /\ (Stepped(t, "autoerr") /\ task[t].handle = NoHandle) =>
               /\ WriteChan' = WriteChan
               /\ IF o.From \in DOMAIN connPool
                  THEN /\ task'[t].pc = "send"
                       /\ task'[t].conn = connPool[o.From]
                  ELSE /\ task'[t].pc = "done"
                       /\ task'[t].sent = <<>>
         /\ (Stepped(t, "send") /\ task[t].handle = NoHandle) =>
               /\ task'[t].pc = "done"
               /\ \E m \in {Last(WriteChan'[task[t].conn])} :
                     /\ Enqueues(task[t].conn, m)
                     /\ task'[t].sent = << <<task[t].conn, m>> >>
                     /\ m.Status = LLLEGAL
                     /\ m.To = o.From
                     /\ m.From = uid
                     /\ m.Operation = o.Operation
                     /\ m.Body # ""
    ]_vars

\* C1 happens: an ILLEGAL reply was enqueued for a request of a connected peer.
C1_Witness ==
    \E t \in Tasks :
        /\ task[t].pc = "done"
        /\ task[t].handle = NoHandle
        /\ Len(task[t].sent) = 1
        /\ task[t].sent[1][2].Status = LLLEGAL
        /\ task[t].sent[1][2] \in { WriteChan[task[t].sent[1][1]][i] :
                                      i \in 1 .. Len(WriteChan[task[t].sent[1][1]]) }

\* C2: when the To of a handler's reply (defaulted to the original From) is no
\* key of the pool at the lookup, the reply is enqueued nowhere; the task
\* enqueues exactly one message with Status = FAILURE and To = original From
\* on the queue of the connection keyed by the From the request had on
\* arrival, or nothing when that key is absent too.
C2_UnroutableReply ==
    [][\A t \in Tasks :
         LET o == task[t].orig
             rto == IF task[t].resp.To = "" THEN o.From ELSE task[t].resp.To
         IN
         /\ (Stepped(t, "route") /\ rto \notin DOMAIN connPool) =>
               /\ task'[t].pc = "autoerr"
               /\ task'[t].status = FAILURE
               /\ WriteChan' = WriteChan
         /\ (Stepped(t, "autoerr") /\ task[t].handle # NoHandle) =>
               /\ WriteChan' = WriteChan
               /\ IF o.From \in DOMAIN connPool
                  THEN /\ task'[t].pc = "send"
                       /\ task'[t].conn = connPool[o.From]
                  ELSE /\ task'[t].pc = "done"
                       /\ task'[t].sent = <<>>
         /\ (Stepped(t, "send") /\ task[t].status = FAILURE) =>
               /\ task'[t].pc = "done"
               /\ \E m \in {Last(WriteChan'[task[t].conn])} :
                     /\ Enqueues(task[t].conn, m)
                     /\ task'[t].sent = << <<task[t].conn, m>> >>
                     /\ m.Status = FAILURE
                     /\ m.To = o.From
    ]_vars

\* C2 happens: a handler that rewrote the request's From addressed a node that
\* is not in the pool, and the FAILURE went to the original requester.
C2_Witness ==
    \E t \in Tasks :
        /\ task[t].pc = "done"
        /\ task[t].ran = "relay"
        /\ Len(task[t].sent) = 1
        /\ task[t].sent[1][2].Status = FAILURE
        /\ task[t].sent[1][2].To = task[t].orig.From

\* C3: every handler reply the dispatcher enqueues has its empty fields
\* filled, To with the original From, Operation with the original Operation
\* and From with the node's own UID (at the latest when the writer stamps an
\* empty From), and the fields the handler set are left as set.
C3_DefaultsFilled ==
    [][\A t \in Tasks :
         (Stepped(t, "route") /\ task'[t].pc = "send") =>
             LET o == task[t].orig
                 h == task[t].resp
                 m == task'[t].resp
             IN  /\ m.To = IF h.To = "" THEN o.From ELSE h.To
                 /\ m.Operation = IF h.Operation = "" THEN o.Operation
                                  ELSE h.Operation
                 /\ StampFrom(m).From = IF h.From = "" THEN uid ELSE h.From
    ]_vars

\* C4: once Server() or Client() has been called, whatever SetAPI calls are
\* made before or after, the handler table maps "+identity+" and "+heartbeat+"
\* to the built-in handlers, and these are what the dispatcher finds.
C4_ReservedFinal ==
    /\ mode # 0 => api[IDENTITY] = "identi" /\ api[HEARTBEAT] = "beat"
    /\ \A t \in Tasks :
          task[t].pc \notin {"idle", "start"} =>
              /\ task[t].orig.Operation = IDENTITY => task[t].handle = "identi"
              /\ task[t].orig.Operation = HEARTBEAT => task[t].handle = "beat"

\* C5: the message the reader publishes for a decoded payload carries the wire
\* From when that is not empty and the connection's peer UID when it is, so it
\* is not empty whenever the peer UID is known.
C5_FromSubstituted ==
    [][\A c \in Conns :
         (rbuf[c] # <<>> /\ rbuf'[c] = Tail(rbuf[c]) /\ Head(rbuf[c]).ok) =>
             LET w == Head(rbuf[c]).m
                 d == Last(apiReadChan').d
             IN  /\ Len(apiReadChan') = Len(apiReadChan) + 1
                 /\ d.From = IF w.From = "" THEN conn[c].UID ELSE w.From
                 /\ conn[c].UID # "" => d.From # ""
    ]_vars

\* The handler task t ran returned no reply.
ReturnedNil(t) ==
    task[t].ran # NoHandle /\ Process(task[t].ran, task[t].orig).nil

InPool(c) == \E k \in DOMAIN connPool : connPool[k] = c

\* C6 as stated (P8): once the handler task of a message that arrived over a
\* short-lived connection, and names it in From, has returned no reply, the
\* dispatcher dequeues no later message of that connection while the
\* connection is still open and in the pool.
C6_ClosedBeforeNextDequeue ==
    [][nTask' = nTask + 1 =>
         \A t \in 1 .. nTask :
             LET c == Head(apiReadChan).src IN
             (/\ task[t].src = c
              /\ ReturnedNil(t)
              /\ conn[c].IsShort
              /\ conn[c].UID # ""
              /\ task[t].orig.From = conn[c].UID)
             => ~(conn[c].st = "open" /\ InPool(c))
    ]_vars

\* C6 as amended: a handler task whose handler returned no reply enqueues
\* nothing; it looks the request's From up in the pool and, while an entry is
\* there and short-lived, goes on to closeConn, which closes the connection it
\* finds under that key and deletes the key, and touches no other connection
\* or key.  (The dispatcher does not wait for it.)
C6_NoReplyCloses ==
    [][\A t \in Tasks :
         LET f == task[t].orig.From
             present == f \in DOMAIN connPool
         IN
         /\ Stepped(t, "noreply1") =>
               /\ task'[t].pc = IF present THEN "noreply2" ELSE "done"
               /\ UNCHANGED <<WriteChan, conn, connPool>>
         /\ (Stepped(t, "noreply2") /\ present) =>
               /\ task'[t].pc = IF conn[connPool[f]].IsShort THEN "closeConn1"
                                ELSE "done"
               /\ UNCHANGED <<WriteChan, conn, connPool>>
         /\ Stepped(t, "closeConn1") =>
               /\ IF present
                  THEN task'[t].pc = "closeConn2" /\ task'[t].conn = connPool[f]
                  ELSE task'[t].pc = "done"
               /\ UNCHANGED <<WriteChan, conn, connPool>>
         /\ Stepped(t, "closeConn2") =>
               /\ task'[t].pc = "done"
               /\ conn'[task[t].conn].st = "closed"
               /\ \A d \in Conns \ {task[t].conn} : conn'[d] = conn[d]
               /\ DOMAIN connPool' = (DOMAIN connPool) \ {f}
               /\ \A k \in DOMAIN connPool' : connPool'[k] = connPool[k]
               /\ UNCHANGED WriteChan
    ]_vars

\* C6 happens: a no-reply handler task has closed the short-lived connection
\* its message came over.
C6_Witness ==
    \E t \in Tasks :
        /\ task[t].pc = "done"
        /\ ReturnedNil(t)
        /\ task[t].src \in task[t].closed
        /\ conn[task[t].src].IsShort
        /\ conn[task[t].src].st = "closed"
        /\ ~InPool(task[t].src)

\* C7: Request without a target passes its wait only when a ready connection
\* exists, then selects a ready connection, never goes on with no peer
\* selected, and enqueues on a connection that is ready.
C7_UntargetedRequest ==
    [][(rq' # rq /\ ~rq'.targeted) =>
         /\ rq'.pc # "panic"
         /\ (rq.pc = "count" /\ rq'.pc = "select") => CountNodes > 0
         /\ (rq.pc = "select" /\ rq'.pc = "get") =>
               /\ rq'.nodeuid # <<>>
               /\ IsReady(getConn(rq'.nodeuid[1]))
         /\ (rq.pc = "send" /\ rq'.pc = "returned") =>
               /\ IsReady(rq.conn)
               /\ Enqueues(rq.conn, Last(WriteChan'[rq.conn]))
    ]_vars

\* C8: Request with a target enqueues nothing before its last step, and that
\* step puts exactly one message, From = own UID, To = the target, the given
\* Operation, Status = SUCCESS, on the queue of a connection that is then
\* registered under the target and ready.
C8_TargetedRequest ==
    [][(rq' # rq /\ rq'.targeted) =>
         IF rq.pc = "send"
         THEN LET to == rq.nodeuid[1]
                  m == Last(WriteChan'[rq.conn])
              IN  /\ rq'.pc = "returned"
                  /\ Enqueues(rq.conn, m)
                  /\ m.From = uid /\ m.To = to /\ m.Operation = rq.operation
                  /\ m.Status = SUCCESS
                  /\ getConn(to) = rq.conn
                  /\ IsReady(rq.conn)
         ELSE WriteChan' = WriteChan
    ]_vars

\* C9: a step of Close called with explicit UIDs that are keys of the pool leaves the listener and the
\* canClose flag as they were and every pool entry that is not listed in the
\* pool, on the same connection, that connection untouched.
C9_CloseListedFrame ==
    [][(/\ cl' # cl
        /\ ~cl'.all
        /\ cl.pc \in {"idle", "returned"} => cl'.listed \subseteq DOMAIN connPool) =>
         /\ listener' = listener
         /\ canClose' = canClose
         /\ \A k \in (DOMAIN connPool) \ cl'.listed :
               /\ k \in DOMAIN connPool'
               /\ connPool'[k] = connPool[k]
               /\ conn'[connPool[k]] = conn[connPool[k]]
    ]_vars

\* C10: when Close() without arguments returns, the listener is not open,
\* every connection that was in the pool when the range began is closed, the
\* pool is empty and CountNodes() is 0.
C10_CloseAllEmpties ==
    [][(cl.pc = "all" /\ cl'.pc = "returned") =>
         /\ listener' # "open"
         /\ \A c \in cl.snap : conn'[c].st = "closed"
         /\ connPool' = <<>>
         /\ \A k \in DOMAIN connPool' : ~(conn'[connPool'[k]].st = "open"
                                         /\ conn'[connPool'[k]].UID # "")
    ]_vars

\* The goroutines whose next step reads the pool map, and those whose next
\* step writes it (delete).  Nothing in the code orders the step of one
\* goroutine against the step of another.
PoolReaders ==
    { <<"task", t>> : t \in { u \in Tasks : task[u].pc \in
          {"noreply1", "noreply2", "closeConn1", "route", "autoerr"} } }
    \cup { <<"request", 0>> : x \in { y \in {rq.pc} :
             \/ y \in {"count", "select", "get"}
             \/ y = "wait" /\ (rq.conn = NilConn \/ ~IsReady(rq.conn)) } }
    \cup { <<"close", 0>> : x \in { y \in {cl.pc} : y \in {"all", "listed"} } }

PoolWriters ==
    { <<"task", t>> : t \in { u \in Tasks : task[u].pc = "closeConn2" } }
    \cup { <<"close", 0>> : x \in { y \in {cl.pc} :
             \/ y = "all" /\ DOMAIN connPool # {}
             \/ y = "listed" /\ Head(cl.left) \in DOMAIN connPool } }

\* C11: accesses to the pool are serialized: in no reachable state is one
\* goroutine at a write of the pool while another goroutine is at a read or a
\* write of it.
C11_PoolSerialized ==
    \A w \in PoolWriters : \A g \in PoolWriters \cup PoolReaders : g = w

\* C12: the handler task of a HEARTBEAT message enqueues no message, closes
\* no connection and leaves the pool as it is, whatever connection the
\* heartbeat arrived on.
C12_HeartbeatNoEffect ==
    [][\A t \in Tasks :
         (/\ task[t].pc # "idle"
          /\ task[t].orig.Operation = HEARTBEAT
          /\ task'[t] # task[t])
         => UNCHANGED <<WriteChan, conn, connPool>>
    ]_vars

\* The messages waiting on the outbound queues.
Queued ==
    UNION { { WriteChan[c][i] : i \in 1 .. Len(WriteChan[c]) } : c \in Conns }

\* C13: once the node runs as a server its UID is "Server", whatever SetUID
\* calls were made before or are made after; what Request enqueues, what
\* autoErrorHandle enqueues and what the writer stamps on a message without
\* From carry From = "Server".
C13_ServerUID ==
    [][mode' = SERVER =>
         /\ uid' = "Server"
         /\ (rq.pc = "send" /\ rq'.pc = "returned") =>
               Last(WriteChan'[rq.conn]).From = "Server"
         /\ \A t \in Tasks :
               (Stepped(t, "send") /\ task[t].status # SUCCESS) =>
                   Last(WriteChan'[task[t].conn]).From = "Server"
         /\ \A m \in Queued' : m.From = "" => StampFrom(m)'.From = "Server"
    ]_vars

\* C13 happens: a server has enqueued a request of its own, an error reply and
\* a reply without From, and is still "Server".
C13_Witness ==
    /\ mode = SERVER
    /\ uid = "Server"
    /\ rq.pc = "returned" /\ rq.sent # <<>>
    /\ \E t \in Tasks : task[t].status # SUCCESS /\ task[t].sent # <<>>
    /\ \E m \in Queued : m.From = ""

\* A message with its From and To exchanged and nothing else changed.
Swapped(m) == [m EXCEPT !.From = m.To, !.To = m.From]

\* C14: the IDENTITY handler returns the received message with From and To
\* exchanged and the other fields unchanged, and a second application gives
\* the original back; for an IDENTITY message with non-empty From f and To t
\* whose f is a key of the pool at the dispatcher's lookup, the task enqueues
\* exactly that reply, To = f and From = t, on the connection found under f.
C14_IdentitySwap ==
    [][\A t \in Tasks :
         LET o == task[t].orig IN
         /\ (Stepped(t, "start") /\ o.Operation = IDENTITY) =>
               /\ task'[t].pc = "route"
               /\ task'[t].ran = "identi"
               /\ task'[t].resp = Swapped(o)
               /\ Process(task'[t].ran, task'[t].resp).resp = o
               /\ WriteChan' = WriteChan
         /\ (/\ Stepped(t, "route") /\ task[t].ran = "identi"
             /\ o.From # "" /\ o.To # "" /\ o.From \in DOMAIN connPool) =>
               /\ task'[t].pc = "send"
               /\ task'[t].conn = connPool[o.From]
               /\ task'[t].resp = Swapped(o)
               /\ WriteChan' = WriteChan
         /\ (/\ Stepped(t, "send") /\ task[t].ran = "identi"
             /\ task[t].status = SUCCESS
             /\ o.From # "" /\ o.To # "") =>
               /\ task'[t].pc = "done"
               /\ \E m \in {Last(WriteChan'[task[t].conn])} :
                     /\ Enqueues(task[t].conn, m)
                     /\ task'[t].sent = << <<task[t].conn, m>> >>
                     /\ m = Swapped(o)
                     /\ m.To = o.From /\ m.From = o.To
    ]_vars

\* C14 happens: the reply to an IDENTITY message with distinct non-empty From
\* and To went out, exchanged, on the connection registered under its From.
C14_Witness ==
    \E t \in Tasks :
        /\ task[t].pc = "done"
        /\ task[t].ran = "identi"
        /\ task[t].orig.From # "" /\ task[t].orig.To # ""
        /\ task[t].orig.From # task[t].orig.To
        /\ Len(task[t].sent) = 1
        /\ task[t].sent[1][2].To = task[t].orig.From
        /\ task[t].sent[1][2].From = task[t].orig.To
        /\ conn[task[t].sent[1][1]].UID = task[t].orig.From

\* The arrival numbers of connection c's messages on the inbound queue, and
\* those of its payloads that save has yet to publish.
QueuedNos(c) ==
    { ArrivalNo(apiReadChan[i].d.UID) :
        i \in { j \in 1 .. Len(apiReadChan) : apiReadChan[j].src = c } }
PendingNos(c) ==
    { ArrivalNo(rbuf[c][i].m.UID) :
        i \in { j \in 1 .. Len(rbuf[c]) : rbuf[c][j].ok } }

\* C15: the messages of one connection are on the inbound queue in the order
\* their payloads arrived, ahead of everything of that connection still to be
\* published, and the dispatcher has taken them off in that order.
C15_ArrivalOrder ==
    \A c \in Conns :
        /\ \A i \in 1 .. Len(apiReadChan) : \A j \in 1 .. Len(apiReadChan) :
              (i < j /\ apiReadChan[i].src = c /\ apiReadChan[j].src = c) =>
                  ArrivalNo(apiReadChan[i].d.UID) < ArrivalNo(apiReadChan[j].d.UID)
        /\ \A a \in QueuedNos(c) : \A b \in PendingNos(c) : a < b
        /\ \A t \in 1 .. nTask :
              task[t].src = c =>
                  /\ \A u \in 1 .. nTask :
                        (t < u /\ task[u].src = c) =>
                            ArrivalNo(task[t].orig.UID) < ArrivalNo(task[u].orig.UID)
                  /\ \A a \in QueuedNos(c) \cup PendingNos(c) :
                        ArrivalNo(task[t].orig.UID) < a

\* C15 happens: two payloads of one connection have both been dispatched.
C15_Witness ==
    /\ nTask = 2
    /\ task[1].src = task[2].src
    /\ ArrivalNo(task[1].orig.UID) = 1
    /\ ArrivalNo(task[2].orig.UID) = 2

\* C16: a payload that does not decode is dropped and nothing else happens:
\* each turn of save's loop takes the first pending payload, publishes it if
\* it decodes and publishes nothing if it does not, leaves the payloads after
\* it pending in their order, and leaves the connection open and in the pool,
\* so read returns true and the reader goes on.  A connection stops being
\* open only by a socket read that fails or returns no bytes, from which read
\* returns false having published nothing, with nothing pending and TmpBuffer
\* as it was; a read that delivers bytes leaves the connection open.
C16_DecodeFailureDropped ==
    [][\A c \in Conns :
         /\ (rbuf[c] # <<>> /\ rbuf'[c] # rbuf[c]) =>
               /\ rbuf'[c] = Tail(rbuf[c])
               /\ IF Head(rbuf[c]).ok
                  THEN /\ Len(apiReadChan') = Len(apiReadChan) + 1
                       /\ SubSeq(apiReadChan', 1, Len(apiReadChan)) = apiReadChan
                       /\ Last(apiReadChan').src = c
                       /\ Last(apiReadChan').d.Body = Head(rbuf[c]).m.Body
                       /\ Last(apiReadChan').d.Operation = Head(rbuf[c]).m.Operation
                  ELSE apiReadChan' = apiReadChan
               /\ conn' = conn
               /\ connPool' = connPool
         /\ (conn[c].st = "open" /\ conn'[c].st # "open") =>
               /\ rbuf[c] = <<>>
               /\ rbuf' = rbuf
               /\ apiReadChan' = apiReadChan
               /\ conn'[c].TmpBuffer = conn[c].TmpBuffer
         /\ (rbuf[c] = <<>> /\ (rbuf'[c] # <<>>
                                \/ conn'[c].TmpBuffer # conn[c].TmpBuffer)) =>
               /\ conn'[c].st = "open"
               /\ connPool' = connPool
               /\ apiReadChan' = apiReadChan
    ]_vars

\* C16 happens: of two payloads read, one was dropped and one published, a
\* frame is begun in TmpBuffer, and the connection is open with its reader
\* back at the socket.
C16_Witness ==
    \E c \in Conns :
        /\ nRead = 2
        /\ rbuf[c] = <<>>
        /\ Len(apiReadChan) = 1
        /\ apiReadChan[1].src = c
        /\ conn[c].st = "open"
        /\ conn[c].TmpBuffer # <<>>

\* The messages published on the inbound queue so far.
Published == nTask + Len(apiReadChan)

\* C17: the dispatcher alone takes messages off the inbound queue, one at a
\* time from its head, and starts exactly one handler task for each, leaving
\* the other tasks as they are; and whatever the tasks started earlier do (a
\* handler that has not returned, a send waiting on a full outbound queue)
\* every message put on the inbound queue is eventually dispatched.
C17_DispatchNeverWaits ==
    /\ [][/\ apiReadChan' # apiReadChan =>
                \/ /\ Len(apiReadChan') = Len(apiReadChan) + 1
                   /\ apiReadChan' = Append(apiReadChan, Last(apiReadChan'))
                   /\ task' = task
                \/ /\ apiReadChan # <<>>
                   /\ apiReadChan' = Tail(apiReadChan)
                   /\ nTask' = nTask + 1
                   /\ task'[nTask'].pc = "start"
                   /\ task'[nTask'].orig = Head(apiReadChan).d
                   /\ \A t \in Tasks \ {nTask'} : task'[t] = task[t]
          /\ nTask' # nTask => apiReadChan' # apiReadChan
         ]_vars
    /\ \A n \in 1 .. MaxTasks : (Published >= n) ~> (nTask >= n)

\* C17 happens: a task waits at its send on a full outbound queue, and the
\* message after its own has been dispatched all the same.
C17_Witness ==
    /\ nTask = 2
    /\ task[1].pc = "send"
    /\ Len(WriteChan[task[1].conn]) = WChanCap
    /\ task[2].pc = "start"

\* C18: whenever a handler task enqueues a reply, normal or error, the
\* connection whose queue it goes on is at that moment open and registered in
\* the pool under the reply's To.
C18_ReplyOnRegisteredConn ==
    [][\A t \in Tasks :
         Stepped(t, "send") =>
             /\ getConn(task[t].resp.To) = task[t].conn
             /\ conn[task[t].conn].st = "open"
    ]_vars

\* C19: the no-reply path never faults on a missing pool entry, whatever
\* removes the originator between its two lookups, and no connection is
\* closed by more than one handler task.
C19_NoReplyNoFault ==
    /\ \A t \in Tasks : task[t].pc # "panic"
    /\ \A t \in Tasks : \A u \in Tasks :
          t # u => task[t].closed \cap task[u].closed = {}

\* C20: a turn of Close's loop over its listed UIDs that meets a UID which is
\* no key of the pool does nothing and goes on to the next UID: it does not
\* fault and leaves the pool and every connection as they were.
C20_CloseMissingNoop ==
    [][(/\ cl.pc = "listed"
        /\ cl' # cl
        /\ Head(cl.left) \notin DOMAIN connPool) =>
         /\ cl'.pc = IF Tail(cl.left) = <<>> THEN "returned" ELSE "listed"
         /\ cl'.left = Tail(cl.left)
         /\ connPool' = connPool
         /\ conn' = conn
    ]_vars

====
